---------------------------- MODULE Spec2Model ----------------------------
(***************************************************************************)
(* Remote-delivery subsystem of SmartLogger (dist/smartLogger.js): the     *)
(* in-memory batch buffer, the size/timer triggered flush, the HTTP        *)
(* delivery attempt with its asynchronous outcome, the failure handler     *)
(* with its backoff restart of the recurring timer, the disk-backed        *)
(* durability queue and its drain, flushRemote() and close().              *)
(*                                                                         *)
(* Node runs the logger on one thread: every action below is one turn of   *)
(* the event loop (a call made by the application, a timer callback, an    *)
(* I/O completion callback), executed to its end.                          *)
(***************************************************************************)
EXTENDS Integers, Sequences, FiniteSets, TLC

(***************************************************************************)
(* Bounds of the model.                                                    *)
(***************************************************************************)
\* number of log calls made by the application
MaxRecords == 3
\* delivery failures handled (caps _remoteFailCount)
MaxFails == 2
\* requests in flight at the same time
MaxInflight == 2
\* flushRemote() calls made by the application
MaxFlushCalls == 1
\* _flushPersistentQueue() calls made by the application
MaxDrains == 1
\* I/O errors the file system raises (appendFileSync, readFile, writeFile)
MaxIoErrors == 1
\* largest remote.batchSize the application configures
MaxBatchSize == 2
\* the small remote.maxBuffer the application configures
SmallMaxBuffer == 2
\* largest attempt handed to calcBackoff in SpecBackoff
MaxAttempt == 8
\* number of distinct JSON texts the records of SpecRoundTrip have
MaxRoundTripRec == 2
\* records an earlier process left in the queue file (SpecDrain)
MaxStored == 2
\* length, in tokens, of the queue file an earlier process left (SpecDrain)
MaxFileTokens == 4
\* largest bufferMaxSize the application configures (SpecFile)
MaxBufferMaxSize == 2
\* largest rotation.size, in lines, the application configures (SpecFile)
MaxRotationSize == 1
\* delivery failures handled in SpecRetry
MaxRetryFails == 7

(***************************************************************************)
(* Program constants.                                                      *)
(***************************************************************************)
DefaultMaxBuffer == 1000
BackoffBase == 500
BackoffCap == 30000
JitterSpan == 100
NoTimer == 0
DefaultBufferMaxSize == 100
DefaultMaxFiles == 5

VARIABLES
    urlMode,          \* remote.url: "absent", "malformed" or "valid"
    remoteReliable,   \* remoteReliable && remoteQueuePath
    remoteGzip,       \* remoteGzip
    remoteBatchSize,  \* this.remoteBatchSize
    maxBuffer,        \* remote.maxBuffer (0: not given)
    remoteBuffer,     \* this.remoteBuffer, oldest first
    remoteTimer,      \* this.remoteTimer: NoTimer (null) or an interval handle
    intervals,        \* handles of the setInterval timers not cleared yet
    remoteFailCount,  \* this._remoteFailCount
    backoffAttempt,   \* attempt last handed to calcBackoff by a failure handler
    backoffTimeouts,  \* pending setTimeout(() => _startRemoteTimer(), backoff)
    graceTimeouts,    \* pending 200 ms callbacks of flushRemote()
    inflight,         \* delivery attempts not completed yet, in flush order
    queueFile,        \* content of remoteQueuePath, a sequence of tokens
    delivered,        \* records of the requests the endpoint has answered
    drains,           \* _flushPersistentQueue() promise chains in progress
    nextRec,          \* the record the next log call creates
    flushCalls,       \* flushRemote() calls made so far
    drainCalls,       \* _flushPersistentQueue() calls made so far
    closed,           \* close() has been called
    ioErrors,         \* I/O errors raised so far
    escaped,          \* an exception has reached the application
    bkAttempt,        \* SpecBackoff: the attempt given to calcBackoff
    bkJitter,         \* SpecBackoff: the value of Math.random() * 100, floored
    bkDelay,          \* SpecBackoff: the delay calcBackoff returned (-1: none)
    rtBatch,          \* SpecRoundTrip: the records the application logs
    hasFile,          \* this.file is given
    filesLevels,      \* the levels this.filesMap gives a file of their own
    bufferMaxSize,    \* this._bufferMaxSize
    bufferMap,        \* this._bufferMap: the pending lines of each file
    fileStreams,      \* the files this._fileStreams holds a stream of
    streamData,       \* the lines written to the streams of each file
    bufferFlushTimer, \* this._bufferFlushTimer is set
    fileLogged,       \* the lines log() has passed to each file, in order
    rotationSize,     \* this.rotation.size, in lines (0: no rotation given)
    rotatedFiles      \* content of file.1, file.2, ... of this.file

cfgVars == <<urlMode, remoteReliable, remoteGzip, remoteBatchSize, maxBuffer,
             rtBatch, hasFile, filesLevels, bufferMaxSize, rotationSize>>
fileVars == <<bufferMap, fileStreams, streamData, bufferFlushTimer,
              fileLogged, rotatedFiles>>
timerVars == <<remoteTimer, intervals>>
callVars == <<flushCalls, drainCalls>>
bkVars == <<bkAttempt, bkJitter, bkDelay>>
vars == <<urlMode, remoteReliable, remoteGzip, remoteBatchSize, maxBuffer,
          remoteBuffer, remoteTimer, intervals, remoteFailCount, backoffAttempt,
          backoffTimeouts, graceTimeouts, inflight, queueFile, delivered,
          drains, nextRec,
          flushCalls, drainCalls, closed, ioErrors, escaped, bkAttempt,
          bkJitter, bkDelay, rtBatch, hasFile, filesLevels, bufferMaxSize,
          bufferMap, fileStreams, streamData, bufferFlushTimer, fileLogged,
          rotationSize, rotatedFiles>>

(***************************************************************************)
(* Sequences.                                                              *)
(***************************************************************************)
Min(a, b) == IF a <= b THEN a ELSE b

\* Array.prototype.slice(0, n)
SliceTo(s, n) == SubSeq(s, 1, Min(n, Len(s)))

\* Array.prototype.slice(n)
SliceFrom(s, n) == SubSeq(s, Min(n, Len(s)) + 1, Len(s))

\* the sequence s without its i-th element
RemoveAt(s, i) == SubSeq(s, 1, i - 1) \o SubSeq(s, i + 1, Len(s))

\* the elements of s
Range(s) == {s[k] : k \in DOMAIN s}

RECURSIVE Pow2(_)
Pow2(n) == IF n = 0 THEN 1 ELSE 2 * Pow2(n - 1)

(***************************************************************************)
(* calcBackoff(attempt, base = 500, cap = 30000), with jitter the value    *)
(* Math.random() * 100 took.                                               *)
(***************************************************************************)
\* variant: the delay is not cut to the cap
calcBackoffNoCap(attempt, jitter) ==
    BackoffBase * Pow2(attempt) + jitter

calcBackoff(attempt, jitter) ==
    Min(BackoffCap, BackoffBase * Pow2(attempt) + jitter)

(***************************************************************************)
(* The durability queue file: a text, modelled as a sequence of tokens,    *)
(* each the newline or the JSON text of one record.                        *)
(***************************************************************************)
NL == [nl |-> TRUE]

\* a piece of text that is no JSON value (a record cut short by a crash)
Bad == [bad |-> TRUE]

\* JSON.parse(JSON.stringify(record)).  A record is an integer: a positive
\* one is a payload JSON represents exactly (what log() builds in json mode);
\* a negative one -r is a payload with a value JSON does not keep (a Date
\* in the context, a key whose value is undefined), whose text is the text
\* of the record r.
JsonImage(r) == IF r < 0 THEN -r ELSE r

\* JSON.stringify(record): the text of one record
Stringify(r) == [json |-> JsonImage(r)]

IsJson(tok) == "json" \in DOMAIN tok

\* JSON.parse(line), for a line that parses
Parse(line) == line[1].json

\* whether JSON.parse(line) returns instead of throwing
Parses(line) == Len(line) = 1 /\ IsJson(line[1])

\* lines.join('\n')
RECURSIVE JoinLines(_)
JoinLines(lines) ==
    IF Len(lines) = 0 THEN <<>>
    ELSE IF Len(lines) = 1 THEN lines[1]
    ELSE lines[1] \o <<NL>> \o JoinLines(Tail(lines))

\* String.prototype.trim(), the newline being the only whitespace of the text
RECURSIVE TrimLeft(_)
TrimLeft(text) ==
    IF Len(text) > 0 /\ text[1] = NL THEN TrimLeft(Tail(text)) ELSE text

RECURSIVE TrimRight(_)
TrimRight(text) ==
    IF Len(text) > 0 /\ text[Len(text)] = NL
    THEN TrimRight(SubSeq(text, 1, Len(text) - 1))
    ELSE text

\* variant: the text is split as it was read
NoTrim(text) == text

Trim(text) == TrimRight(TrimLeft(text))

\* String.prototype.split('\n'): the lines of a text, each a sequence of tokens
RECURSIVE SplitLines(_, _)
SplitLines(text, cur) ==
    IF Len(text) = 0 THEN <<cur>>
    ELSE IF text[1] = NL THEN <<cur>> \o SplitLines(Tail(text), <<>>)
    ELSE SplitLines(Tail(text), Append(cur, text[1]))

Split(text) == SplitLines(text, <<>>)

\* buffer.map(b => JSON.stringify(b)).join('\n') + '\n'
BatchLines(batch) ==
    JoinLines([i \in 1..Len(batch) |-> <<Stringify(batch[i])>>]) \o <<NL>>

(***************************************************************************)
(* The recurring timer.                                                    *)
(***************************************************************************)
\* the handle setInterval returns: one no live or remembered timer has
FreshHandle(timer, live) ==
    CHOOSE h \in 1..(Cardinality(live \cup {timer}) + 1) :
        h \notin live \cup {timer}

\* variant: no "if (this.remoteTimer) return" before setInterval
StartRemoteTimerUnguarded(timer, live) ==
    <<FreshHandle(timer, live), live \cup {FreshHandle(timer, live)}>>

\* _startRemoteTimer(): <<this.remoteTimer, live intervals>> afterwards
StartRemoteTimer(timer, live) ==
    IF timer # NoTimer
    THEN <<timer, live>>
    ELSE <<FreshHandle(timer, live), live \cup {FreshHandle(timer, live)}>>

\* clearInterval(this.remoteTimer); this.remoteTimer = null
StopRemoteTimer(timer, live) == <<NoTimer, live \ {timer}>>

(***************************************************************************)
(* _flushRemote(): <<this.remoteBuffer, requests in flight>> afterwards.   *)
(* The buffer is spliced empty before the URL is parsed.                   *)
(***************************************************************************)
NewRequest(batch) ==
    [batch |-> batch,
     stage |-> IF remoteGzip THEN "gzip" ELSE "sent",
     body  |-> "plain",
     header |-> FALSE]

\* variant: splice(0, this.remoteBatchSize) instead of the whole buffer
FlushRemoteBatchOnly(buf, reqs) ==
    IF urlMode = "absent" THEN <<buf, reqs>>
    ELSE IF Len(buf) = 0 THEN <<buf, reqs>>
    ELSE IF urlMode = "malformed" THEN <<SliceFrom(buf, remoteBatchSize), reqs>>
    ELSE <<SliceFrom(buf, remoteBatchSize),
           Append(reqs, NewRequest(SliceTo(buf, remoteBatchSize)))>>

FlushRemoteSendsEmpty(buf, reqs) ==
    IF urlMode = "absent" THEN <<buf, reqs>>
    ELSE IF urlMode = "malformed" THEN <<(<<>>), reqs>>
    ELSE <<(<<>>), Append(reqs, NewRequest(buf))>>

FlushRemote(buf, reqs) ==
    IF urlMode = "absent" THEN <<buf, reqs>>
    ELSE IF Len(buf) = 0 THEN <<buf, reqs>>
    ELSE IF urlMode = "malformed" THEN <<(<<>>), reqs>>
    ELSE <<(<<>>), Append(reqs, NewRequest(buf))>>

\* new URL(this.remote.url) throws
UrlThrows == urlMode = "malformed"

\* variant: a catch block that throws the exception again
Rethrown(thrown) == thrown

\* try { ... } catch (e) { }: whether the exception thrown inside (thrown)
\* leaves the block
Caught(thrown) == FALSE

\* whether _flushRemote() ends by an exception: the URL is parsed under a
\* try whose catch returns
FlushRemoteThrows(buf) ==
    Caught(urlMode # "absent" /\ Len(buf) > 0 /\ UrlThrows)

\* whether _flushRemote() would create a request
FlushSends(buf) == urlMode = "valid" /\ Len(buf) > 0

\* room for the request a flush of buf would create
Room(buf) == FlushSends(buf) => Len(inflight) < MaxInflight

\* const cap = self.remote.maxBuffer || 1000
RequeueCap == IF maxBuffer = 0 THEN DefaultMaxBuffer ELSE maxBuffer

(***************************************************************************)
(* File targets.  A line goes to the file of its level when filesMap names *)
(* one and to this.file otherwise; the lines of a file wait in its buffer  *)
(* until a flush joins them, empties the buffer and writes them to the     *)
(* stream of the file.  The stream is opened at the first flush and kept;  *)
(* when it cannot be opened _getStreamForFile returns null and the flush   *)
(* returns after it has emptied the buffer.                                *)
(***************************************************************************)
Levels == {"info", "error"}
Targets == Levels \cup {"file"}
NoLines == [t \in Targets |-> <<>>]

\* the target of _writeToFile(plain, level); "none": no target
TargetOf(level) ==
    IF level \in filesLevels THEN level
    ELSE IF hasFile THEN "file" ELSE "none"

\* the files of ts a flush of buf has to open a stream for
NeedsOpen(ts, buf) == {t \in ts : buf[t] # <<>> /\ t \notin fileStreams}

\* the body _flushBuffersFor (ts: one file) and _flushBuffers (ts: every
\* file) share, run on the buffers buf; failing: the files whose stream
\* cannot be opened
FlushBuffers(ts, buf, failing) ==
    [buf |-> [t \in Targets |-> IF t \in ts THEN <<>> ELSE buf[t]],
     streams |-> fileStreams \cup (NeedsOpen(ts, buf) \ failing),
     data |-> [t \in Targets |-> IF t \in ts /\ t \notin failing
                                 THEN streamData[t] \o buf[t]
                                 ELSE streamData[t]]]

\* the I/O errors of a flush: one for each stream that cannot be opened
FlushIo(ts, buf, failing) ==
    /\ failing \subseteq NeedsOpen(ts, buf)
    /\ ioErrors + Cardinality(failing) <= MaxIoErrors
    /\ ioErrors' = ioErrors + Cardinality(failing)

\* _writeToFile(plain, level): push, and flush the file at bufferMaxSize
WriteToFile(line, level, failing) ==
    LET t == TargetOf(level)
    IN IF t = "none"
       THEN /\ failing = {}
            /\ UNCHANGED <<fileVars, ioErrors>>
       ELSE LET pushed == [bufferMap EXCEPT ![t] = Append(@, line)]
                ts == IF Len(pushed[t]) >= bufferMaxSize THEN {t} ELSE {}
                res == FlushBuffers(ts, pushed, failing)
            IN /\ FlushIo(ts, pushed, failing)
               /\ fileLogged' = [fileLogged EXCEPT ![t] = Append(@, line)]
               /\ bufferMap' = res.buf
               /\ fileStreams' = res.streams
               /\ streamData' = res.data
               /\ UNCHANGED <<bufferFlushTimer, rotatedFiles>>

\* variant: close() ends the streams before it flushes, so that what it
\* writes to a stream it held is lost
CloseFilesEndsFirst(failing) ==
    LET res == FlushBuffers(Targets, bufferMap, failing)
    IN /\ FlushIo(Targets, bufferMap, failing)
       /\ bufferMap' = res.buf
       /\ streamData' = [t \in Targets |-> IF t \in fileStreams
                                            THEN streamData[t]
                                            ELSE res.data[t]]
       /\ bufferFlushTimer' = FALSE
       /\ fileStreams' = {}
       /\ UNCHANGED <<fileLogged, rotatedFiles>>

\* the file part of close(): _flushBuffers(), _stopBufferFlushTimer(),
\* s.end() for every stream, _fileStreams.clear()
CloseFiles(failing) ==
    LET res == FlushBuffers(Targets, bufferMap, failing)
    IN /\ FlushIo(Targets, bufferMap, failing)
       /\ bufferMap' = res.buf
       /\ streamData' = res.data
       /\ bufferFlushTimer' = FALSE
       /\ fileStreams' = {}
       /\ UNCHANGED <<fileLogged, rotatedFiles>>

\* _rotateIfNeeded(), which no method of the logger calls: below the size
\* nothing; at the size the file becomes file.1 and file.i becomes
\* file.(i+1) up to file.maxFiles, whose old content is overwritten, and
\* the stream is opened again on a file that no longer exists.  The result
\* is the pair of the file and the rotated files.
RotateIfNeeded(current, rotated) ==
    IF Len(current) < rotationSize THEN <<current, rotated>>
    ELSE <<(<<>>), SliceTo(<<current>> \o rotated, DefaultMaxFiles)>>

\* no file target: the options give neither file nor files
InitNoFiles ==
    /\ hasFile = FALSE
    /\ filesLevels = {}
    /\ bufferMaxSize = DefaultBufferMaxSize
    /\ rotationSize = 0

(***************************************************************************)
(* The state after the constructor.  The application chooses the options;  *)
(* with remote.url given the constructor starts the recurring timer, and   *)
(* with remoteReliable it makes sure the queue file exists: it creates an  *)
(* empty one when there is none and keeps the one an earlier process left. *)
(***************************************************************************)
InitLogger ==
    /\ urlMode \in {"absent", "malformed", "valid"}
    /\ remoteReliable \in BOOLEAN
    /\ remoteGzip \in BOOLEAN
    /\ remoteBatchSize \in 1..MaxBatchSize
    /\ maxBuffer \in {0, SmallMaxBuffer}
    /\ remoteBuffer = <<>>
    /\ remoteTimer = (IF urlMode = "absent" THEN NoTimer
                      ELSE StartRemoteTimer(NoTimer, {})[1])
    /\ intervals = (IF urlMode = "absent" THEN {}
                    ELSE StartRemoteTimer(NoTimer, {})[2])
    /\ remoteFailCount = 0
    /\ backoffAttempt = 0
    /\ backoffTimeouts = 0
    /\ graceTimeouts = 0
    /\ inflight = <<>>
    /\ delivered = {}
    /\ drains = <<>>
    /\ nextRec = 1
    /\ flushCalls = 0
    /\ drainCalls = 0
    /\ closed = FALSE
    /\ ioErrors = 0
    /\ escaped = FALSE
    /\ bufferMap = NoLines
    /\ fileStreams = {}
    /\ streamData = NoLines
    /\ bufferFlushTimer = (hasFile \/ filesLevels # {})
    /\ fileLogged = NoLines
    /\ rotatedFiles = <<>>

Init ==
    /\ InitNoFiles
    /\ InitLogger
    /\ queueFile = <<>>
    /\ bkAttempt = 0
    /\ bkJitter = 0
    /\ bkDelay = -1
    /\ rtBatch = <<>>

(***************************************************************************)
(* log(level, msg): with a file target the line goes to _writeToFile; with *)
(* remote.url given, the payload goes to _enqueueRemote, which pushes it   *)
(* and flushes at the batch size.                                          *)
(***************************************************************************)
\* variant: the flush waits for more than batchSize records
EnqueueRemoteStrict(item) ==
    /\ Room(Append(remoteBuffer, item))
    /\ LET pushed == Append(remoteBuffer, item)
           res == IF Len(pushed) > remoteBatchSize
                  THEN FlushRemote(pushed, inflight)
                  ELSE <<pushed, inflight>>
       IN /\ remoteBuffer' = res[1]
          /\ inflight' = res[2]

\* whether _enqueueRemote(item) ends by an exception: its body is a try
\* whose catch is empty
EnqueueRemoteThrows(item) ==
    Caught(/\ Len(Append(remoteBuffer, item)) >= remoteBatchSize
           /\ FlushRemoteThrows(Append(remoteBuffer, item)))

\* variant: the flush starts only when the length is exactly batchSize
EnqueueRemoteExact(item) ==
    /\ Room(Append(remoteBuffer, item))
    /\ LET pushed == Append(remoteBuffer, item)
           res == IF Len(pushed) = remoteBatchSize
                  THEN FlushRemote(pushed, inflight)
                  ELSE <<pushed, inflight>>
       IN /\ remoteBuffer' = res[1]
          /\ inflight' = res[2]

EnqueueRemote(item) ==
    /\ Room(Append(remoteBuffer, item))
    /\ LET pushed == Append(remoteBuffer, item)
           res == IF Len(pushed) >= remoteBatchSize
                  THEN FlushRemote(pushed, inflight)
                  ELSE <<pushed, inflight>>
       IN /\ remoteBuffer' = res[1]
          /\ inflight' = res[2]

Log ==
    /\ ~closed
    /\ nextRec <= MaxRecords
    /\ nextRec' = nextRec + 1
    /\ \E level \in Levels, failing \in SUBSET Targets :
           WriteToFile(nextRec, level, failing)
    /\ IF urlMode # "absent"
       THEN /\ EnqueueRemote(nextRec)
            /\ escaped' = (escaped \/ EnqueueRemoteThrows(nextRec))
       ELSE UNCHANGED <<remoteBuffer, inflight, escaped>>
    /\ UNCHANGED <<cfgVars, delivered, timerVars, remoteFailCount,
                   backoffAttempt, backoffTimeouts, graceTimeouts,
                   queueFile, drains, closed, callVars, bkVars>>

(***************************************************************************)
(* The callback of the recurring timer:                                    *)
(* if (this.remoteBuffer.length) this._flushRemote()                       *)
(***************************************************************************)
\* variant: the timer callback also starts a drain of the queue file
TimerTickDrains ==
    /\ intervals # {}
    /\ Room(remoteBuffer)
    /\ LET res == IF Len(remoteBuffer) > 0
                  THEN FlushRemote(remoteBuffer, inflight)
                  ELSE <<remoteBuffer, inflight>>
       IN /\ remoteBuffer' = res[1]
          /\ inflight' = res[2]
    /\ drains' = IF remoteReliable /\ Len(drains) < MaxDrains
                 THEN Append(drains, [pc |-> "read", remaining |-> <<>>])
                 ELSE drains
    /\ UNCHANGED <<cfgVars, fileVars, delivered, timerVars, remoteFailCount,
                   backoffAttempt, backoffTimeouts, graceTimeouts,
                   queueFile, nextRec, closed, ioErrors, callVars,
                   bkVars, escaped>>

TimerTick ==
    /\ intervals # {}
    /\ Room(remoteBuffer)
    /\ LET res == IF Len(remoteBuffer) > 0
                  THEN FlushRemote(remoteBuffer, inflight)
                  ELSE <<remoteBuffer, inflight>>
       IN /\ remoteBuffer' = res[1]
          /\ inflight' = res[2]
    /\ UNCHANGED <<cfgVars, fileVars, delivered, timerVars, remoteFailCount,
                   backoffAttempt, backoffTimeouts, graceTimeouts,
                   queueFile, drains, nextRec, closed, ioErrors, callVars,
                   bkVars, escaped>>

(***************************************************************************)
(* The callback of zlib.gzip: send(result), or on a compression error      *)
(* send(Buffer.from(body)); send sets Content-Encoding from remoteGzip.    *)
(***************************************************************************)
GzipDone(i, err) ==
    /\ i \in DOMAIN inflight
    /\ inflight[i].stage = "gzip"
    /\ inflight' = [inflight EXCEPT ![i] =
                       [@ EXCEPT !.stage = "sent",
                                 !.body = IF err THEN "plain" ELSE "gzip",
                                 !.header = remoteGzip]]
    /\ UNCHANGED <<cfgVars, fileVars, delivered, remoteBuffer, timerVars,
                   remoteFailCount, backoffAttempt, backoffTimeouts,
                   graceTimeouts, queueFile, drains, nextRec, closed,
                   ioErrors, callVars, bkVars,
                   escaped>>

(***************************************************************************)
(* A response arrives (any status): the response callback only consumes    *)
(* the body.                                                               *)
(***************************************************************************)
\* variant: the batch is put back although the endpoint answered
RespondRequeues(i) ==
    /\ i \in DOMAIN inflight
    /\ inflight[i].stage = "sent"
    /\ inflight' = RemoveAt(inflight, i)
    /\ delivered' = delivered \cup Range(inflight[i].batch)
    /\ remoteBuffer' = inflight[i].batch \o remoteBuffer
    /\ UNCHANGED <<cfgVars, fileVars, timerVars, remoteFailCount,
                   backoffAttempt, backoffTimeouts, graceTimeouts,
                   queueFile, drains, nextRec, closed, ioErrors, callVars,
                   bkVars, escaped>>

\* variant: a success resets the fail count
RespondResets(i) ==
    /\ i \in DOMAIN inflight
    /\ inflight[i].stage = "sent"
    /\ inflight' = RemoveAt(inflight, i)
    /\ delivered' = delivered \cup Range(inflight[i].batch)
    /\ remoteFailCount' = 0
    /\ UNCHANGED <<cfgVars, fileVars, remoteBuffer, timerVars,
                   backoffAttempt, backoffTimeouts, graceTimeouts,
                   queueFile, drains, nextRec, closed, ioErrors, callVars,
                   bkVars, escaped>>

Respond(i) ==
    /\ i \in DOMAIN inflight
    /\ inflight[i].stage = "sent"
    /\ inflight' = RemoveAt(inflight, i)
    /\ delivered' = delivered \cup Range(inflight[i].batch)
    /\ UNCHANGED <<cfgVars, fileVars, remoteBuffer, timerVars, remoteFailCount,
                   backoffAttempt, backoffTimeouts, graceTimeouts,
                   queueFile, drains, nextRec, closed, ioErrors, callVars,
                   bkVars, escaped>>

(***************************************************************************)
(* req.on('error'): persist the batch (durable mode) or put it back at the *)
(* front of the buffer, count the failure, stop the timer and schedule its *)
(* restart after the backoff.                                              *)
(***************************************************************************)
\* the batch, last record first
Reverse(batch) == [k \in 1..Len(batch) |-> batch[Len(batch) + 1 - k]]

\* variant: the lines are written last record first
PersistReversed(file, batch, appended) ==
    IF appended THEN file \o BatchLines(Reverse(batch)) ELSE file

\* variant: the failing append has written the first line of the batch
PersistPartial(file, batch, appended) ==
    IF appended THEN file \o BatchLines(batch)
    ELSE file \o BatchLines(SliceTo(batch, 1))

\* fs.appendFileSync(self.remoteQueuePath, lines); appended: no I/O error
Persist(file, batch, appended) ==
    IF appended THEN file \o BatchLines(batch) ELSE file

\* variant: push(...buffer) instead of unshift(...buffer)
RequeueAtBack(buf, batch) ==
    IF Len(buf \o batch) > RequeueCap
    THEN SliceTo(buf \o batch, RequeueCap)
    ELSE buf \o batch

\* variant: slice(-cap), which keeps the last cap entries
RequeueKeepsNewest(buf, batch) ==
    IF Len(batch \o buf) > RequeueCap
    THEN SliceFrom(batch \o buf, Len(batch \o buf) - RequeueCap)
    ELSE batch \o buf

\* self.remoteBuffer.unshift(...buffer), then the cut to the cap
Requeue(buf, batch) ==
    IF Len(batch \o buf) > RequeueCap
    THEN SliceTo(batch \o buf, RequeueCap)
    ELSE batch \o buf

\* variant: the handle is neither cleared nor forgotten
FailureTimerKept(timer, live) == <<timer, live>>

\* the timer after the handler's if (self.remoteTimer) { clearInterval; null }
FailureTimer(timer, live) ==
    IF timer # NoTimer THEN StopRemoteTimer(timer, live) ELSE <<timer, live>>

\* an I/O call that succeeds (ok) or raises one more I/O error
Io(ok) ==
    /\ ~ok => ioErrors < MaxIoErrors
    /\ ioErrors' = IF ok THEN ioErrors ELSE ioErrors + 1

\* variant: the handler sends the failed batch again itself
HandleFailureRetries(i, appended) ==
    /\ i \in DOMAIN inflight
    /\ inflight[i].stage = "sent"
    /\ remoteFailCount < MaxFails
    /\ appended
    /\ remoteFailCount' = remoteFailCount + 1
    /\ backoffAttempt' = remoteFailCount + 1
    /\ inflight' = Append(RemoveAt(inflight, i),
                          NewRequest(inflight[i].batch))
    /\ UNCHANGED <<cfgVars, fileVars, delivered, remoteBuffer, timerVars,
                   backoffTimeouts, graceTimeouts, queueFile, drains,
                   nextRec, closed, ioErrors, callVars, bkVars, escaped>>

HandleFailure(i, appended) ==
    /\ i \in DOMAIN inflight
    /\ inflight[i].stage = "sent"
    /\ remoteFailCount < MaxFails
    /\ IF remoteReliable
       THEN /\ Io(appended)
            /\ queueFile' = Persist(queueFile, inflight[i].batch, appended)
            /\ UNCHANGED remoteBuffer
       ELSE /\ appended
            /\ UNCHANGED ioErrors
            /\ remoteBuffer' = Requeue(remoteBuffer, inflight[i].batch)
            /\ UNCHANGED queueFile
    /\ remoteFailCount' = remoteFailCount + 1
    /\ backoffAttempt' = remoteFailCount + 1
    /\ remoteTimer' = FailureTimer(remoteTimer, intervals)[1]
    /\ intervals' = FailureTimer(remoteTimer, intervals)[2]
    /\ backoffTimeouts' = backoffTimeouts + 1
    /\ inflight' = RemoveAt(inflight, i)
    /\ UNCHANGED <<cfgVars, fileVars, delivered, graceTimeouts, drains, nextRec,
                   closed, callVars, bkVars,
                   escaped>>

\* the status codes a response carries: a success, a client error and a
\* server error
Statuses == {200, 404, 500}

\* variant: a response with an error status is handled as a failure
OnResponseChecked(i, status) ==
    IF status >= 400 THEN HandleFailure(i, TRUE) ELSE Respond(i)

\* (res) => { res.on('data', () => { }); res.on('end', () => { }); }: the
\* callback of transport.request never reads res.statusCode
OnResponse(i, status) == Respond(i)

\* req.on('error', ...): a transport error
OnError(i, appended) == HandleFailure(i, appended)

\* variant: the timed-out request is destroyed and its batch forgotten
OnTimeoutIgnored(i, appended) ==
    /\ i \in DOMAIN inflight
    /\ inflight[i].stage = "sent"
    /\ appended
    /\ inflight' = RemoveAt(inflight, i)
    /\ UNCHANGED <<cfgVars, fileVars, delivered, remoteBuffer, timerVars,
                   remoteFailCount, backoffAttempt, backoffTimeouts,
                   graceTimeouts, queueFile, drains, nextRec, closed,
                   ioErrors, callVars, bkVars, escaped>>

\* req.on('timeout', () => { req.destroy(); }): destroying the request emits
\* its 'error' event, which runs the same handler
OnTimeout(i, appended) == HandleFailure(i, appended)

(***************************************************************************)
(* The backoff delay elapses: setTimeout(() => self._startRemoteTimer()).  *)
(***************************************************************************)
BackoffExpires ==
    /\ backoffTimeouts > 0
    /\ backoffTimeouts' = backoffTimeouts - 1
    /\ remoteTimer' = StartRemoteTimer(remoteTimer, intervals)[1]
    /\ intervals' = StartRemoteTimer(remoteTimer, intervals)[2]
    /\ UNCHANGED <<cfgVars, fileVars, delivered, remoteBuffer, remoteFailCount,
                   backoffAttempt, graceTimeouts, inflight, queueFile,
                   drains, nextRec, closed, ioErrors, callVars, bkVars,
                   escaped>>

(***************************************************************************)
(* flushRemote(): clearInterval(this.remoteTimer) without forgetting the   *)
(* handle, a flush of a non-empty buffer, and a 200 ms timeout whose       *)
(* callback restarts the timer if this.remoteTimer == null and resolves.   *)
(***************************************************************************)
\* if (this.remoteTimer) clearInterval(this.remoteTimer)
ClearForFlush(timer, live) == <<timer, live \ {timer}>>

FlushRemoteCall ==
    /\ ~closed
    /\ flushCalls < MaxFlushCalls
    /\ flushCalls' = flushCalls + 1
    /\ Room(remoteBuffer)
    /\ remoteTimer' = ClearForFlush(remoteTimer, intervals)[1]
    /\ intervals' = ClearForFlush(remoteTimer, intervals)[2]
    /\ LET res == IF Len(remoteBuffer) > 0
                  THEN FlushRemote(remoteBuffer, inflight)
                  ELSE <<remoteBuffer, inflight>>
       IN /\ remoteBuffer' = res[1]
          /\ inflight' = res[2]
    /\ graceTimeouts' = graceTimeouts + 1
    /\ UNCHANGED <<cfgVars, fileVars, delivered, remoteFailCount,
                   backoffAttempt, backoffTimeouts, queueFile, drains,
                   nextRec, closed, ioErrors, drainCalls, bkVars, escaped>>

\* the timer after the callback's
\* if (this.remoteTimer == null && this.remote && this.remote.url)
\*     this._startRemoteTimer()
GraceTimer(timer, live) ==
    IF timer = NoTimer /\ urlMode # "absent"
    THEN StartRemoteTimer(timer, live)
    ELSE <<timer, live>>

GraceExpires ==
    /\ graceTimeouts > 0
    /\ graceTimeouts' = graceTimeouts - 1
    /\ remoteTimer' = GraceTimer(remoteTimer, intervals)[1]
    /\ intervals' = GraceTimer(remoteTimer, intervals)[2]
    /\ UNCHANGED <<cfgVars, fileVars, delivered, remoteBuffer, remoteFailCount,
                   backoffAttempt, backoffTimeouts, inflight, queueFile,
                   drains, nextRec, closed, ioErrors, callVars, bkVars,
                   escaped>>

(***************************************************************************)
(* close(): flush the file buffers, stop their timer and end the streams;  *)
(* stop the remote timer, then flush what the remote buffer holds.         *)
(***************************************************************************)
Close ==
    /\ ~closed
    /\ Room(remoteBuffer)
    /\ closed' = TRUE
    /\ \E failing \in SUBSET Targets : CloseFiles(failing)
    /\ remoteTimer' = FailureTimer(remoteTimer, intervals)[1]
    /\ intervals' = FailureTimer(remoteTimer, intervals)[2]
    /\ LET res == IF Len(remoteBuffer) > 0
                  THEN FlushRemote(remoteBuffer, inflight)
                  ELSE <<remoteBuffer, inflight>>
       IN /\ remoteBuffer' = res[1]
          /\ inflight' = res[2]
    /\ UNCHANGED <<cfgVars, delivered, remoteFailCount, backoffAttempt,
                   backoffTimeouts, graceTimeouts, queueFile, drains,
                   nextRec, callVars, bkVars, escaped>>

(***************************************************************************)
(* The callback of the buffer-flush timer: this._flushBuffers()            *)
(***************************************************************************)
BufferFlushTick(failing) ==
    /\ bufferFlushTimer
    /\ LET res == FlushBuffers(Targets, bufferMap, failing)
       IN /\ FlushIo(Targets, bufferMap, failing)
          /\ bufferMap' = res.buf
          /\ fileStreams' = res.streams
          /\ streamData' = res.data
    /\ UNCHANGED <<cfgVars, bufferFlushTimer, fileLogged, rotatedFiles,
                   delivered,
                   remoteBuffer, timerVars, remoteFailCount, backoffAttempt,
                   backoffTimeouts, graceTimeouts, inflight, queueFile,
                   drains, nextRec, closed, callVars, bkVars, escaped>>

(***************************************************************************)
(* _flushPersistentQueue(): a promise chain                                *)
(*   access, readFile -> parse, unshift, writeFile -> _flushRemote         *)
(* whose steps are separate turns of the event loop; any rejection ends    *)
(* the chain in its catch.  writeFile itself is two steps on the file: it  *)
(* opens it with flag 'w', which truncates it, and writes the data at its  *)
(* start in a later turn; a failure handler can append in between.         *)
(***************************************************************************)
FlushPersistentQueueCall ==
    /\ ~closed
    /\ remoteReliable
    /\ drainCalls < MaxDrains
    /\ drainCalls' = drainCalls + 1
    /\ drains' = Append(drains, [pc |-> "read", remaining |-> <<>>])
    /\ UNCHANGED <<cfgVars, fileVars, delivered, remoteBuffer, timerVars,
                   remoteFailCount, backoffAttempt, backoffTimeouts,
                   graceTimeouts, inflight, queueFile, nextRec, closed,
                   ioErrors, flushCalls, bkVars,
                   escaped>>

\* const lines = data.trim().split('\n')
DrainLines(data) == Split(Trim(data))

\* const take = Math.min(lines.length, this.remoteBatchSize || 10)
DrainTake(lines) == Min(Len(lines), remoteBatchSize)

\* lines.slice(0, take).map(l => JSON.parse(l)) returns instead of throwing
DrainParses(lines) ==
    \A k \in 1..DrainTake(lines) : Parses(lines[k])

\* const batch = lines.slice(0, take).map(l => JSON.parse(l))
DrainBatch(lines) ==
    [k \in 1..DrainTake(lines) |-> Parse(lines[k])]

\* variant: the file is emptied whatever it held
DrainRemainingNone(lines) == <<>>

\* remaining.join('\n') + (remaining.length ? '\n' : '')
DrainRemaining(lines) ==
    LET remaining == SliceFrom(lines, DrainTake(lines))
    IN JoinLines(remaining) \o (IF Len(remaining) > 0 THEN <<NL>> ELSE <<>>)

\* variant: the lines that do not parse are skipped, the others are put
\* into the buffer and the file is rewritten
DrainReadSkipsCorrupt(d, read) ==
    /\ d \in DOMAIN drains
    /\ drains[d].pc = "read"
    /\ read
    /\ Len(queueFile) > 0
    /\ LET lines == DrainLines(queueFile)
           good == SelectSeq(SubSeq(lines, 1, DrainTake(lines)), Parses)
       IN /\ remoteBuffer' = [k \in 1..Len(good) |-> Parse(good[k])]
                                \o remoteBuffer
          /\ drains' = [drains EXCEPT ![d] =
                [pc |-> "write", remaining |-> DrainRemaining(lines)]]
    /\ UNCHANGED <<cfgVars, fileVars, delivered, timerVars, remoteFailCount,
                   backoffAttempt, backoffTimeouts, graceTimeouts, inflight,
                   queueFile, nextRec, closed, ioErrors, callVars, bkVars,
                   escaped>>

\* readFile resolves with the content (read) or rejects; then the callback
\* parses the first lines, puts them in front of the buffer and starts
\* writeFile with the remaining lines.  A rejection, or an exception of
\* JSON.parse, ends the chain in its .catch(() => { }).
DrainRead(d, read) ==
    /\ d \in DOMAIN drains
    /\ drains[d].pc = "read"
    /\ Io(read)
    /\ escaped' =
          (escaped \/ Caught(\/ ~read
                             \/ /\ Len(queueFile) > 0
                                /\ ~DrainParses(DrainLines(queueFile))))
    /\ IF ~read
       THEN /\ drains' = RemoveAt(drains, d)
            /\ UNCHANGED remoteBuffer
       ELSE IF Len(queueFile) = 0
       THEN /\ drains' = [drains EXCEPT ![d].pc = "flush"]
            /\ UNCHANGED remoteBuffer
       ELSE IF ~DrainParses(DrainLines(queueFile))
       THEN /\ drains' = RemoveAt(drains, d)
            /\ UNCHANGED remoteBuffer
       ELSE /\ remoteBuffer' = DrainBatch(DrainLines(queueFile)) \o remoteBuffer
            /\ drains' = [drains EXCEPT ![d] =
                  [pc |-> "write",
                   remaining |-> DrainRemaining(DrainLines(queueFile))]]
    /\ UNCHANGED <<cfgVars, fileVars, delivered, timerVars, remoteFailCount,
                   backoffAttempt, backoffTimeouts, graceTimeouts, inflight,
                   queueFile, nextRec, closed, callVars, bkVars>>

\* writeFile opens the file for writing (opened: the file is now empty) or
\* the open fails, which rejects and ends the chain without the flush.
DrainOpen(d, opened) ==
    /\ d \in DOMAIN drains
    /\ drains[d].pc = "write"
    /\ Io(opened)
    /\ escaped' = (escaped \/ Caught(~opened))
    /\ IF opened
       THEN /\ queueFile' = <<>>
            /\ drains' = [drains EXCEPT ![d].pc = "opened"]
       ELSE /\ UNCHANGED queueFile
            /\ drains' = RemoveAt(drains, d)
    /\ UNCHANGED <<cfgVars, fileVars, delivered, remoteBuffer, timerVars,
                   remoteFailCount, backoffAttempt, backoffTimeouts,
                   graceTimeouts, inflight, nextRec, closed, callVars,
                   bkVars>>

\* variant: the data replaces whatever the file holds
WriteAtStartReplaces(data, cur) == {data}

\* The contents the file can have after data was written at the start of a
\* file that holds cur.  Nothing appended since the open: data.  Otherwise
\* data covers the first characters of cur and the rest of cur stays behind
\* it; the lengths of the texts being those of the records the application
\* logs, the end of data can fall at the end of cur or beyond it, between
\* two tokens of cur, or inside a token of cur, of which a piece that is no
\* JSON value then remains.
WriteAtStart(data, cur) ==
    IF Len(cur) = 0 THEN {data}
    ELSE IF Len(data) = 0 THEN {cur}
    ELSE {data}
         \cup {data \o SubSeq(cur, k, Len(cur)) : k \in 2..Len(cur)}
         \cup {data \o <<Bad>> \o SubSeq(cur, k + 1, Len(cur)) :
                  k \in {j \in 1..Len(cur) : cur[j] # NL}}

\* the write of writeFile completes (written: the remaining lines are at
\* the start of the file) or fails, which rejects and ends the chain
\* without the flush.
DrainWrite(d, written) ==
    /\ d \in DOMAIN drains
    /\ drains[d].pc = "opened"
    /\ Io(written)
    /\ escaped' = (escaped \/ Caught(~written))
    /\ IF written
       THEN /\ queueFile' \in WriteAtStart(drains[d].remaining, queueFile)
            /\ drains' = [drains EXCEPT ![d].pc = "flush"]
       ELSE /\ UNCHANGED queueFile
            /\ drains' = RemoveAt(drains, d)
    /\ UNCHANGED <<cfgVars, fileVars, delivered, remoteBuffer, timerVars,
                   remoteFailCount, backoffAttempt, backoffTimeouts,
                   graceTimeouts, inflight, nextRec, closed, callVars,
                   bkVars>>

\* variant: the chain ends without the flush
DrainFlushSkipped(d) ==
    /\ d \in DOMAIN drains
    /\ drains[d].pc = "flush"
    /\ drains' = RemoveAt(drains, d)
    /\ UNCHANGED <<cfgVars, fileVars, delivered, remoteBuffer, inflight,
                   timerVars, remoteFailCount, backoffAttempt, backoffTimeouts,
                   graceTimeouts, queueFile, nextRec, closed, ioErrors,
                   callVars, bkVars, escaped>>

\* .then(() => this._flushRemote())
DrainFlush(d) ==
    /\ d \in DOMAIN drains
    /\ drains[d].pc = "flush"
    /\ Room(remoteBuffer)
    /\ remoteBuffer' = FlushRemote(remoteBuffer, inflight)[1]
    /\ inflight' = FlushRemote(remoteBuffer, inflight)[2]
    /\ drains' = RemoveAt(drains, d)
    /\ UNCHANGED <<cfgVars, fileVars, delivered, timerVars, remoteFailCount,
                   backoffAttempt, backoffTimeouts, graceTimeouts,
                   queueFile, nextRec, closed, ioErrors, callVars, bkVars,
                   escaped>>

(***************************************************************************)
(* The logger.                                                             *)
(***************************************************************************)
Next ==
    \/ Log
    \/ TimerTick
    \/ \E i \in 1..MaxInflight, err \in BOOLEAN : GzipDone(i, err)
    \/ \E i \in 1..MaxInflight, status \in Statuses : OnResponse(i, status)
    \/ \E i \in 1..MaxInflight, appended \in BOOLEAN : OnTimeout(i, appended)
    \/ \E i \in 1..MaxInflight, appended \in BOOLEAN : OnError(i, appended)
    \/ BackoffExpires
    \/ FlushRemoteCall
    \/ GraceExpires
    \/ Close
    \/ FlushPersistentQueueCall
    \/ \E d \in 1..MaxDrains, read \in BOOLEAN : DrainRead(d, read)
    \/ \E d \in 1..MaxDrains, opened \in BOOLEAN : DrainOpen(d, opened)
    \/ \E d \in 1..MaxDrains, written \in BOOLEAN : DrainWrite(d, written)
    \/ \E d \in 1..MaxDrains : DrainFlush(d)

Spec == Init /\ [][Next]_vars

(***************************************************************************)
(* calcBackoff on its own: the attempt and the jitter are drawn, the       *)
(* logger is left as constructed, and one call computes the delay.         *)
(***************************************************************************)
InitBackoff ==
    /\ InitNoFiles
    /\ InitLogger
    /\ urlMode = "valid"
    /\ ~remoteReliable
    /\ ~remoteGzip
    /\ remoteBatchSize = MaxBatchSize
    /\ maxBuffer = 0
    /\ bkAttempt \in 0..MaxAttempt
    /\ bkJitter \in 0..(JitterSpan - 1)
    /\ bkDelay = -1
    /\ rtBatch = <<>>
    /\ queueFile = <<>>

BackoffCall ==
    /\ bkDelay = -1
    /\ bkDelay' = calcBackoff(bkAttempt, bkJitter)
    /\ UNCHANGED <<cfgVars, fileVars, delivered, remoteBuffer, timerVars,
                   remoteFailCount, backoffAttempt, backoffTimeouts,
                   graceTimeouts, inflight, queueFile, drains, nextRec,
                   closed, ioErrors, callVars, escaped, bkAttempt,
                   bkJitter>>

NextBackoff == BackoffCall

SpecBackoff == InitBackoff /\ [][NextBackoff]_vars

(***************************************************************************)
(* The durability queue on its own: the application logs the records of    *)
(* rtBatch in durable mode, every delivery fails and is appended to the    *)
(* queue file, and the queue is drained; no I/O error is raised.           *)
(***************************************************************************)
\* the payloads log() hands to _enqueueRemote
RoundTripRecords ==
    {r \in (0 - MaxRoundTripRec)..MaxRoundTripRec : r # 0}

InitRoundTrip ==
    /\ InitNoFiles
    /\ InitLogger
    /\ urlMode = "valid"
    /\ remoteReliable
    /\ ~remoteGzip
    /\ maxBuffer = 0
    /\ bkAttempt = 0
    /\ bkJitter = 0
    /\ bkDelay = -1
    /\ rtBatch \in UNION {[1..n -> RoundTripRecords] : n \in 1..MaxBatchSize}
    /\ queueFile = <<>>

\* log(level, msg, context) with the payload rtBatch[nextRec]
RoundTripLog ==
    /\ ~closed
    /\ nextRec <= Len(rtBatch)
    /\ nextRec' = nextRec + 1
    /\ EnqueueRemote(rtBatch[nextRec])
    /\ escaped' = (escaped \/ EnqueueRemoteThrows(rtBatch[nextRec]))
    /\ UNCHANGED <<cfgVars, fileVars, delivered, timerVars, remoteFailCount,
                   backoffAttempt, backoffTimeouts, graceTimeouts,
                   queueFile, drains, closed, ioErrors, callVars, bkVars>>

NextRoundTrip ==
    \/ RoundTripLog
    \/ TimerTick
    \/ \E i \in 1..MaxInflight : OnError(i, TRUE)
    \/ FlushPersistentQueueCall
    \/ \E d \in 1..MaxDrains : DrainRead(d, TRUE)
    \/ \E d \in 1..MaxDrains : DrainOpen(d, TRUE)
    \/ \E d \in 1..MaxDrains : DrainWrite(d, TRUE)
    \/ \E d \in 1..MaxDrains : DrainFlush(d)

SpecRoundTrip == InitRoundTrip /\ [][NextRoundTrip]_vars

(***************************************************************************)
(* The drain of a queue file an earlier process has left: any text of up   *)
(* to MaxFileTokens tokens, complete lines or not, with or without pieces  *)
(* that are no JSON.  The application logs and drains, with remote.url     *)
(* given or not; no request completes.                                     *)
(***************************************************************************)
\* the records of the earlier process, distinct from those logged now
StoredRecords == {MaxRecords + k : k \in 1..MaxStored}

FileTokens == {Stringify(r) : r \in StoredRecords} \cup {NL, Bad}

InitDrain ==
    /\ InitNoFiles
    /\ InitLogger
    /\ urlMode \in {"absent", "valid"}
    /\ remoteReliable
    /\ ~remoteGzip
    /\ maxBuffer = 0
    /\ bkAttempt = 0
    /\ bkJitter = 0
    /\ bkDelay = -1
    /\ rtBatch = <<>>
    /\ queueFile \in UNION {[1..n -> FileTokens] : n \in 0..MaxFileTokens}

NextDrain ==
    \/ Log
    \/ TimerTick
    \/ FlushPersistentQueueCall
    \/ \E d \in 1..MaxDrains, read \in BOOLEAN : DrainRead(d, read)
    \/ \E d \in 1..MaxDrains, opened \in BOOLEAN : DrainOpen(d, opened)
    \/ \E d \in 1..MaxDrains, written \in BOOLEAN : DrainWrite(d, written)
    \/ \E d \in 1..MaxDrains : DrainFlush(d)

SpecDrain == InitDrain /\ [][NextDrain]_vars

(***************************************************************************)
(* The rewrite of the queue file against the appends of the failure        *)
(* handler: an earlier run of the logger has left complete lines in the    *)
(* file; the application logs, deliveries fail and are appended, and the   *)
(* queue is drained; no I/O error is raised.                               *)
(***************************************************************************)
InitRewrite ==
    /\ InitNoFiles
    /\ InitLogger
    /\ urlMode = "valid"
    /\ remoteReliable
    /\ ~remoteGzip
    /\ maxBuffer = 0
    /\ bkAttempt = 0
    /\ bkJitter = 0
    /\ bkDelay = -1
    /\ rtBatch = <<>>
    /\ queueFile \in
          {BatchLines(b) :
              b \in UNION {[1..n -> StoredRecords] : n \in 1..MaxStored}}
          \cup {<<>>}

NextRewrite ==
    \/ Log
    \/ TimerTick
    \/ \E i \in 1..MaxInflight : OnError(i, TRUE)
    \/ FlushPersistentQueueCall
    \/ \E d \in 1..MaxDrains : DrainRead(d, TRUE)
    \/ \E d \in 1..MaxDrains : DrainOpen(d, TRUE)
    \/ \E d \in 1..MaxDrains : DrainWrite(d, TRUE)
    \/ \E d \in 1..MaxDrains : DrainFlush(d)

SpecRewrite == InitRewrite /\ [][NextRewrite]_vars

(***************************************************************************)
(* The file targets alone: a logger with file, files or both and no        *)
(* remote.url, which logs lines of either level, whose buffer-flush timer  *)
(* ticks and which is closed.                                              *)
(***************************************************************************)
InitFile ==
    /\ hasFile \in BOOLEAN
    /\ filesLevels \in SUBSET Levels
    /\ hasFile \/ filesLevels # {}
    /\ bufferMaxSize \in 1..MaxBufferMaxSize
    /\ rotationSize \in {n \in 0..MaxRotationSize : n > 0 => hasFile}
    /\ InitLogger
    /\ urlMode = "absent"
    /\ ~remoteReliable
    /\ ~remoteGzip
    /\ remoteBatchSize = MaxBatchSize
    /\ maxBuffer = 0
    /\ queueFile = <<>>
    /\ bkAttempt = 0
    /\ bkJitter = 0
    /\ bkDelay = -1
    /\ rtBatch = <<>>

NextFile ==
    \/ Log
    \/ \E failing \in SUBSET Targets : BufferFlushTick(failing)
    \/ Close

SpecFile == InitFile /\ [][NextFile]_vars

(***************************************************************************)
(* The retry loop with its delays: a logger in non-durable or durable mode *)
(* whose requests are answered or fail, each failure handler recording the *)
(* attempt it hands to calcBackoff, the jitter drawn and the delay of the  *)
(* timeout that restarts the timer.                                        *)
(***************************************************************************)
\* the values of Math.random() * 100 the model draws: the least, the next
\* and the greatest whole ones
RetryJitters == {0, 1, JitterSpan - 1}

\* variant: the attempt is the fail count before the increment
FailureAttemptStale(count) == count

\* self._remoteFailCount++; calcBackoff(self._remoteFailCount)
FailureAttempt(count) == count + 1

\* the 'error' handler of the request, with the backoff it computes
HandleFailureTimed(i, jitter) ==
    /\ i \in DOMAIN inflight
    /\ inflight[i].stage = "sent"
    /\ remoteFailCount < MaxRetryFails
    /\ IF remoteReliable
       THEN queueFile' = Persist(queueFile, inflight[i].batch, TRUE)
            /\ UNCHANGED remoteBuffer
       ELSE remoteBuffer' = Requeue(remoteBuffer, inflight[i].batch)
            /\ UNCHANGED queueFile
    /\ remoteFailCount' = remoteFailCount + 1
    /\ backoffAttempt' = FailureAttempt(remoteFailCount)
    /\ bkAttempt' = FailureAttempt(remoteFailCount)
    /\ bkJitter' = jitter
    /\ bkDelay' = calcBackoff(FailureAttempt(remoteFailCount), jitter)
    /\ remoteTimer' = FailureTimer(remoteTimer, intervals)[1]
    /\ intervals' = FailureTimer(remoteTimer, intervals)[2]
    /\ backoffTimeouts' = backoffTimeouts + 1
    /\ inflight' = RemoveAt(inflight, i)
    /\ UNCHANGED <<cfgVars, fileVars, delivered, graceTimeouts, drains,
                   nextRec, closed, ioErrors, callVars, escaped>>

InitRetry ==
    /\ InitNoFiles
    /\ InitLogger
    /\ urlMode = "valid"
    /\ ~remoteGzip
    /\ remoteBatchSize = 1
    /\ maxBuffer = 0
    /\ queueFile = <<>>
    /\ bkAttempt = 0
    /\ bkJitter = 0
    /\ bkDelay = -1
    /\ rtBatch = <<>>

NextRetry ==
    \/ Log
    \/ TimerTick
    \/ BackoffExpires
    \/ \E i \in 1..MaxInflight : Respond(i)
    \/ \E i \in 1..MaxInflight, jitter \in RetryJitters :
          HandleFailureTimed(i, jitter)

SpecRetry == InitRetry /\ [][NextRetry]_vars

(***************************************************************************)
(* Properties.                                                             *)
(***************************************************************************)
\* the request the step has created, when it has created one
Created == Len(inflight') = Len(inflight) + 1
NewBatch == inflight'[Len(inflight')].batch

\* the records the queue file holds, line by line (0: a line that is no
\* record)
FileRecords(file) ==
    IF Len(file) = 0 THEN <<>>
    ELSE [k \in 1..Len(Split(Trim(file))) |->
             IF Parses(Split(Trim(file))[k])
             THEN Parse(Split(Trim(file))[k])
             ELSE 0]

\* the records 1..n in the order they were logged
Logged(n) == [k \in 1..n |-> k]

\* a step of one of the callers of _flushRemote other than the enqueue
FlushStep ==
    \/ TimerTick
    \/ Close
    \/ FlushRemoteCall
    \/ \E d \in 1..MaxDrains : DrainFlush(d)

(***************************************************************************)
(* C1.  With a malformed remote.url a flush is a no-op: a flush started by *)
(* the timer, close, flushRemote or the queue drain leaves the Batch       *)
(* Buffer and the Durability Queue as they were, and a log call only adds  *)
(* its record to the buffer; no record is removed.                         *)
(***************************************************************************)
C1_MalformedFlushIsNoOp ==
    [][urlMode = "malformed" =>
          /\ FlushStep =>
                (remoteBuffer' = remoteBuffer /\ queueFile' = queueFile)
          /\ Log =>
                (/\ remoteBuffer' = Append(remoteBuffer, nextRec)
                 /\ queueFile' = queueFile)]_vars

(***************************************************************************)
(* C2.  With remote.url configured, when the promise of flushRemote()      *)
(* resolves (the 200 ms callback has run) the recurring timer is armed.    *)
(***************************************************************************)
C2_TimerArmedAfterFlushRemote ==
    [][(urlMode # "absent" /\ GraceExpires) =>
          (remoteTimer' # NoTimer /\ remoteTimer' \in intervals')]_vars

(***************************************************************************)
(* C3.  The scenario batchSize = 2, durable mode off, a maxBuffer that     *)
(* three records do not reach, records A, B, C = 1, 2, 3.                  *)
(***************************************************************************)
C3_Scenario ==
    /\ urlMode = "valid"
    /\ ~remoteReliable
    /\ remoteBatchSize = 2
    /\ RequeueCap >= 10

\* C3 as claimed: once A and B have failed and are back in the buffer, the
\* enqueue of C leaves [A,B,C] in the buffer, and the request made while or
\* after C is logged carries exactly [A,B] and leaves C pending.
C3_NextFlushDrainsAB ==
    [][(C3_Scenario /\ remoteFailCount >= 1) =>
          /\ (remoteBuffer = <<1, 2>> /\ nextRec = 3 /\ Log) =>
                remoteBuffer' = <<1, 2, 3>>
          /\ (nextRec' = 4 /\ Created) =>
                (NewBatch = <<1, 2>> /\ remoteBuffer' = <<3>>)]_vars

\* C3 as amended: the first flush is made by the enqueue of B and carries
\* [A,B]; its failure puts A, B back in front of what the buffer holds; the
\* enqueue of C onto [A,B] flushes [A,B,C] at once, and a flush (timer,
\* flushRemote, close) of a buffer [A,B,C] drains all three in order, leaving
\* the buffer empty: C does not remain pending.
C3_NextFlushDrainsAll ==
    [][C3_Scenario =>
          /\ (remoteBuffer = <<1>> /\ nextRec = 2 /\ Log) =>
                (Created /\ NewBatch = <<1, 2>> /\ remoteBuffer' = <<>>)
          /\ \A i \in 1..MaxInflight :
                (/\ i \in DOMAIN inflight
                 /\ inflight[i].batch = <<1, 2>>
                 /\ HandleFailure(i, TRUE)) =>
                    remoteBuffer' = <<1, 2>> \o remoteBuffer
          /\ (remoteBuffer = <<1, 2>> /\ nextRec = 3 /\ Log) =>
                (Created /\ NewBatch = <<1, 2, 3>> /\ remoteBuffer' = <<>>)
          /\ (remoteBuffer = <<1, 2, 3>> /\ FlushStep) =>
                (Created /\ NewBatch = <<1, 2, 3>> /\ remoteBuffer' = <<>>)]_vars

C3_Witness ==
    /\ C3_Scenario
    /\ remoteFailCount = 1
    /\ Len(inflight) = 1
    /\ inflight[1].batch = <<1, 2, 3>>
    /\ remoteBuffer = <<>>
    /\ delivered = {}

(***************************************************************************)
(* C4.  A failed delivery in non-durable mode puts the batch back in front *)
(* of everything the buffer holds, in its order, and then keeps only the   *)
(* first maxBuffer entries: the buffer is at most maxBuffer long.          *)
(***************************************************************************)
C4_RequeueAtFront ==
    [][\A i \in 1..MaxInflight :
          (~remoteReliable /\ HandleFailure(i, TRUE)) =>
             LET all == inflight[i].batch \o remoteBuffer
                 kept == Min(Len(all), RequeueCap)
             IN /\ Len(remoteBuffer') = kept
                /\ \A k \in 1..kept : remoteBuffer'[k] = all[k]
                /\ Len(remoteBuffer') <= RequeueCap]_vars

\* a record was cut off by the cap: it is nowhere, and was not delivered
C4_Witness ==
    /\ urlMode = "valid"
    /\ ~remoteReliable
    /\ maxBuffer = SmallMaxBuffer
    /\ remoteFailCount >= 1
    /\ Len(remoteBuffer) = SmallMaxBuffer
    /\ inflight = <<>>
    /\ \E r \in 1..(nextRec - 1) :
          r \notin delivered /\ r \notin Range(remoteBuffer)

(***************************************************************************)
(* C5.  A failed delivery in durable mode (the append succeeding) leaves   *)
(* the buffer as it is and adds the batch, one line per record in batch    *)
(* order, to the end of the queue file; in the scenario of batchSize 2     *)
(* where A, B, C are the only records logged, the file then holds A, B and *)
(* the buffer nothing but C.                                               *)
(***************************************************************************)
C5_PersistAtEnd ==
    [][\A i \in 1..MaxInflight :
          (remoteReliable /\ HandleFailure(i, TRUE)) =>
             /\ remoteBuffer' = remoteBuffer
             /\ Len(queueFile') = Len(queueFile) + 2 * Len(inflight[i].batch)
             /\ SubSeq(queueFile', 1, Len(queueFile)) = queueFile
             /\ FileRecords(SubSeq(queueFile', Len(queueFile) + 1,
                                   Len(queueFile'))) = inflight[i].batch
             /\ queueFile = BatchLines(FileRecords(queueFile)) =>
                   FileRecords(queueFile') =
                      FileRecords(queueFile) \o inflight[i].batch
             /\ (/\ remoteBatchSize = 2
                 /\ inflight[i].batch = <<1, 2>>
                 /\ queueFile = <<>>
                 /\ drainCalls = 0
                 /\ nextRec <= 4) =>
                    (/\ FileRecords(queueFile') = <<1, 2>>
                     /\ Range(remoteBuffer') \subseteq {3})]_vars

C5_Witness ==
    /\ remoteReliable
    /\ remoteBatchSize = 2
    /\ queueFile = <<Stringify(1), NL, Stringify(2), NL>>
    /\ remoteBuffer = <<3>>
    /\ remoteFailCount = 1
    /\ inflight = <<>>

(***************************************************************************)
(* C6.  A successful delivery leaves the buffer empty and the queue        *)
(* unchanged: the step that creates a request leaves the buffer empty, the *)
(* response puts no record back into the buffer and none into the queue    *)
(* file, and (no queue drain having copied records) none of the delivered  *)
(* records is in the buffer or in the queue file afterwards.               *)
(***************************************************************************)
C6_SuccessLeavesNothing ==
    [][/\ Created => remoteBuffer' = <<>>
       /\ \A i \in 1..MaxInflight :
             Respond(i) =>
                (/\ remoteBuffer' = remoteBuffer
                 /\ queueFile' = queueFile
                 /\ Len(inflight') = Len(inflight) - 1
                 /\ drainCalls = 0 =>
                       Range(inflight[i].batch) \cap
                          (Range(remoteBuffer') \cup
                           Range(FileRecords(queueFile'))) = {})]_vars

\* every record logged was delivered without a failure, nothing is left
C6_Witness ==
    /\ urlMode = "valid"
    /\ nextRec > 1
    /\ delivered = 1..(nextRec - 1)
    /\ remoteFailCount = 0
    /\ inflight = <<>>
    /\ remoteBuffer = <<>>
    /\ queueFile = <<>>

(***************************************************************************)
(* C7.  With a valid URL an enqueue that leaves fewer than batchSize       *)
(* records only appends; the enqueue that brings the buffer to batchSize   *)
(* creates one request, inside the call, with all the buffered records in  *)
(* enqueue order.                                                          *)
(***************************************************************************)
C7_FlushAtBatchSize ==
    [][(urlMode = "valid" /\ Log) =>
          IF Len(remoteBuffer) + 1 < remoteBatchSize
          THEN /\ inflight' = inflight
               /\ remoteBuffer' = Append(remoteBuffer, nextRec)
          ELSE /\ Created
               /\ SubSeq(inflight', 1, Len(inflight)) = inflight
               /\ NewBatch = Append(remoteBuffer, nextRec)
               /\ remoteBuffer' = <<>>]_vars

\* the first batchSize records are in flight as one batch, made by no timer
\* tick (a tick would have taken fewer), no drain and no second attempt
C7_Witness ==
    /\ urlMode = "valid"
    /\ remoteBatchSize >= 2
    /\ nextRec = remoteBatchSize + 1
    /\ Len(inflight) = 1
    /\ inflight[1].batch = Logged(remoteBatchSize)
    /\ remoteBuffer = <<>>
    /\ remoteFailCount = 0
    /\ drainCalls = 0

(***************************************************************************)
(* C8.  calcBackoff(attempt) <= cap, and as claimed                        *)
(* calcBackoff(attempt) >= floor(base * 2^attempt), for every attempt.     *)
(***************************************************************************)
C8_BackoffAtLeastPower ==
    bkDelay # -1 =>
       /\ bkDelay <= BackoffCap
       /\ bkDelay >= BackoffBase * Pow2(bkAttempt)

\* C8 as amended: the lower bound is the smaller of the cap and the power
C8_BackoffBounds ==
    bkDelay # -1 =>
       /\ bkDelay <= BackoffCap
       /\ BackoffBase * Pow2(bkAttempt) <= BackoffCap =>
             bkDelay >= BackoffBase * Pow2(bkAttempt)
       /\ BackoffBase * Pow2(bkAttempt) > BackoffCap =>
             bkDelay = BackoffCap

C8_Witness ==
    /\ bkDelay = BackoffCap
    /\ BackoffBase * Pow2(bkAttempt) > BackoffCap

(***************************************************************************)
(* C9.  The fail count starts at 0, a handled delivery failure adds        *)
(* exactly 1 to it, and no other step changes it.                          *)
(***************************************************************************)
C9_FailCountMonotone ==
    /\ remoteFailCount = 0
    /\ [][IF \E i \in 1..MaxInflight, appended \in BOOLEAN :
                HandleFailure(i, appended)
          THEN remoteFailCount' = remoteFailCount + 1
          ELSE remoteFailCount' = remoteFailCount]_vars

\* failures were counted and every record was delivered after them
C9_Witness ==
    /\ remoteFailCount = MaxFails
    /\ nextRec > 1
    /\ delivered = 1..(nextRec - 1)

(***************************************************************************)
(* C10.  At most one recurring flush timer is live at any time.            *)
(***************************************************************************)
C10_AtMostOneTimer == Cardinality(intervals) <= 1

\* failures, their backoff restarts, flushRemote with its callback and
\* close have all run, and one timer is live
C10_Witness ==
    /\ Cardinality(intervals) = 1
    /\ remoteFailCount = MaxFails
    /\ backoffTimeouts = 0
    /\ flushCalls >= 1
    /\ graceTimeouts = 0
    /\ closed

(***************************************************************************)
(* C11.  close() stops the recurring timer (no interval is live and the    *)
(* handle is forgotten), neither reads nor modifies the queue file and     *)
(* starts no drain, and with a valid URL it makes exactly one request      *)
(* carrying all the buffered records in order when the buffer is not       *)
(* empty, and none when it is empty.                                       *)
(***************************************************************************)
C11_CloseFlushesOnce ==
    [][Close =>
          /\ remoteTimer' = NoTimer
          /\ intervals' = {}
          /\ queueFile' = queueFile
          /\ drains' = drains
          /\ urlMode = "valid" =>
                IF Len(remoteBuffer) > 0
                THEN /\ Created
                     /\ SubSeq(inflight', 1, Len(inflight)) = inflight
                     /\ NewBatch = remoteBuffer
                     /\ remoteBuffer' = <<>>
                ELSE /\ inflight' = inflight
                     /\ remoteBuffer' = remoteBuffer]_vars

\* record 1 failed once and went back to the buffer, the timer is still in
\* backoff, nothing else was logged or flushed by the application: the
\* request in flight was made by close()
C11_Witness ==
    /\ closed
    /\ urlMode = "valid"
    /\ ~remoteReliable
    /\ remoteFailCount = 1
    /\ backoffTimeouts = 1
    /\ nextRec = 2
    /\ flushCalls = 0
    /\ Len(inflight) = 1
    /\ inflight[1].batch = <<1>>
    /\ remoteBuffer = <<>>
    /\ intervals = {}

(***************************************************************************)
(* C12.  Every request handed to the transport carries the header          *)
(* Content-Encoding: gzip exactly when its body is the gzip compression of *)
(* the batch's JSON text: a body sent uncompressed (gzip disabled, or the  *)
(* compression failed) carries no such header.                             *)
(***************************************************************************)
C12_HeaderMatchesBody ==
    \A i \in DOMAIN inflight :
        inflight[i].stage = "sent" =>
           /\ inflight[i].header => inflight[i].body = "gzip"
           /\ inflight[i].body = "plain" => ~inflight[i].header

(***************************************************************************)
(* C13.  No exception reaches the caller of log(), whatever the URL and    *)
(* the state of the subsystem, and the call returns without waiting for    *)
(* the network: the request it creates is still pending when it returns,   *)
(* and no outcome handling (delivery, failure count, queue file, timer)    *)
(* has run inside the call.                                                *)
(***************************************************************************)
C13_LogNeverThrows ==
    /\ [](~escaped)
    /\ [][Log =>
             /\ ~escaped'
             /\ Created => inflight'[Len(inflight')].stage \in {"gzip", "sent"}
             /\ Len(inflight') >= Len(inflight)
             /\ delivered' = delivered
             /\ remoteFailCount' = remoteFailCount
             /\ queueFile' = queueFile
             /\ remoteTimer' = remoteTimer
             /\ intervals' = intervals
             /\ backoffTimeouts' = backoffTimeouts]_vars

\* a log call has parsed the malformed URL (batchSize 1: every call flushes)
\* and returned
C13_Witness ==
    /\ urlMode = "malformed"
    /\ remoteBatchSize = 1
    /\ nextRec > 1
    /\ remoteBuffer = <<>>
    /\ inflight = <<>>
    /\ ~escaped

C15_AnyResponseDelivers ==
    [][\A i \in 1..MaxInflight, status \in Statuses :
          OnResponse(i, status) =>
             /\ remoteBuffer' = remoteBuffer
             /\ queueFile' = queueFile
             /\ remoteFailCount' = remoteFailCount
             /\ remoteTimer' = remoteTimer
             /\ intervals' = intervals
             /\ backoffTimeouts' = backoffTimeouts
             /\ inflight' = RemoveAt(inflight, i)
             /\ Range(inflight[i].batch) \subseteq delivered']_vars

\* a response has arrived, no failure is counted and the timer the
\* constructor armed is still the live one
C15_Witness ==
    /\ delivered # {}
    /\ remoteFailCount = 0
    /\ remoteTimer # NoTimer
    /\ intervals = {remoteTimer}
    /\ backoffTimeouts = 0
    /\ flushCalls = 0
    /\ ~closed
    /\ queueFile = <<>>
    /\ remoteBuffer = <<>>
    /\ inflight = <<>>

(***************************************************************************)
(* C16.  With a valid URL every flush of a non-empty buffer (timer, close, *)
(* flushRemote, queue drain, or the enqueue reaching batchSize) creates    *)
(* exactly one request, carrying the whole buffer; no step creates more    *)
(* than one request, only those flushes create any, and the failure        *)
(* handler creates none: it only takes its request out of flight.          *)
(***************************************************************************)
C16_OneRequestPerFlush ==
    [][/\ Len(inflight') <= Len(inflight) + 1
       /\ Created => (Log \/ FlushStep)
       /\ (urlMode = "valid" /\ Len(remoteBuffer) > 0 /\ FlushStep) =>
             (/\ Created
              /\ SubSeq(inflight', 1, Len(inflight)) = inflight
              /\ NewBatch = remoteBuffer)
       /\ (urlMode = "valid" /\ Log
             /\ Len(remoteBuffer) + 1 >= remoteBatchSize) =>
             (/\ Created
              /\ SubSeq(inflight', 1, Len(inflight)) = inflight
              /\ NewBatch = Append(remoteBuffer, nextRec))
       /\ \A i \in 1..MaxInflight, appended \in BOOLEAN :
             HandleFailure(i, appended) =>
                inflight' = RemoveAt(inflight, i)]_vars

\* record 1 failed, went back to the buffer and was sent again by a later
\* flush of the open logger
C16_Witness ==
    /\ urlMode = "valid"
    /\ ~remoteReliable
    /\ ~closed
    /\ nextRec = 2
    /\ remoteFailCount = 1
    /\ delivered = {}
    /\ remoteBuffer = <<>>
    /\ Len(inflight) = 1
    /\ inflight[1].batch = <<1>>

(***************************************************************************)
(* C17.  A drain that reads a queue file of n lines keeps for its rewrite  *)
(* the file without its first min(n, batchSize) lines: nothing when       *)
(* n <= batchSize and otherwise the lines after the first batchSize, each  *)
(* unchanged and ended by a newline, in the same order (for a file of      *)
(* complete record lines: the token suffix of the file, holding the        *)
(* records after the first batchSize); the rewrite empties the file and    *)
(* then (nothing having been appended in between) makes exactly that the   *)
(* content of the file.                                                    *)
(***************************************************************************)
C17_DrainRemovesPrefix ==
    [][\A d \in 1..MaxDrains :
          /\ (/\ DrainRead(d, TRUE)
              /\ Len(queueFile) > 0
              /\ DrainParses(DrainLines(queueFile))) =>
                LET lines == Split(Trim(queueFile))
                    n == Len(lines)
                    taken == Min(n, remoteBatchSize)
                    rest == drains'[d].remaining
                IN /\ drains'[d].pc = "write"
                   /\ n <= remoteBatchSize => rest = <<>>
                   /\ n > remoteBatchSize =>
                         /\ rest # <<>>
                         /\ rest[Len(rest)] = NL
                         /\ Split(SubSeq(rest, 1, Len(rest) - 1))
                                = SubSeq(lines, remoteBatchSize + 1, n)
                   /\ queueFile = BatchLines(FileRecords(queueFile)) =>
                         /\ rest = SubSeq(queueFile, 2 * taken + 1,
                                          Len(queueFile))
                         /\ FileRecords(rest) =
                                SubSeq(FileRecords(queueFile), taken + 1, n)
          /\ DrainOpen(d, TRUE) => queueFile' = <<>>
          /\ (DrainWrite(d, TRUE) /\ queueFile = <<>>) =>
                queueFile' = drains[d].remaining]_vars

\* a file of three lines was drained with batchSize 2: its first two
\* records are in the buffer and the rewritten file holds the third
C17_Witness ==
    /\ remoteReliable
    /\ remoteBatchSize = 2
    /\ remoteFailCount = 2
    /\ Len(drains) = 1
    /\ drains[1].pc = "flush"
    /\ remoteBuffer = <<1, 2>>
    /\ queueFile = <<Stringify(3), NL>>
    /\ ioErrors = 0

(***************************************************************************)
(* C18.  Round trip through the queue file, under SpecRoundTrip: the batch *)
(* rtBatch was appended to the empty queue by the failure handler and a    *)
(* drain with batchSize >= its length reads it back.                       *)
(***************************************************************************)
\* the drain d reads the file the failed delivery of rtBatch has written
C18_ReadsBack(d) ==
    /\ DrainRead(d, TRUE)
    /\ Len(rtBatch) <= remoteBatchSize
    /\ queueFile = Persist(<<>>, rtBatch, TRUE)

\* C18 as claimed: the records put into the buffer are equal to the
\* originals, in the same order, and the queue is left empty.
C18_RoundTripEqual ==
    [][\A d \in 1..MaxDrains :
          /\ C18_ReadsBack(d) =>
                (/\ remoteBuffer' = rtBatch \o remoteBuffer
                 /\ drains'[d].remaining = <<>>)
          /\ (/\ DrainWrite(d, TRUE)
              /\ drains[d].remaining = <<>>
              /\ queueFile = <<>>) =>
                queueFile' = <<>>]_vars

\* C18 as amended: the records put into the buffer are the originals as
\* JSON represents them, JSON.parse(JSON.stringify(record)), in the same
\* order; they have the same JSON text as the originals and are equal to
\* them when the originals hold only values JSON represents exactly; the
\* queue is left empty.
C18_RoundTripJson ==
    [][\A d \in 1..MaxDrains :
          /\ C18_ReadsBack(d) =>
                (/\ remoteBuffer' =
                       [k \in 1..Len(rtBatch) |-> JsonImage(rtBatch[k])]
                          \o remoteBuffer
                 /\ BatchLines(SubSeq(remoteBuffer', 1, Len(rtBatch))) =
                       BatchLines(rtBatch)
                 /\ (\A k \in 1..Len(rtBatch) : rtBatch[k] > 0) =>
                       remoteBuffer' = rtBatch \o remoteBuffer
                 /\ drains'[d].pc = "write"
                 /\ drains'[d].remaining = <<>>)
          /\ (/\ DrainWrite(d, TRUE)
              /\ drains[d].remaining = <<>>
              /\ queueFile = <<>>) =>
                queueFile' = <<>>]_vars

\* a batch of two records, one with a value JSON does not keep, has failed,
\* was persisted and drained: the buffer holds their JSON images and the
\* queue file is empty
C18_Witness ==
    /\ rtBatch = <<-1, 2>>
    /\ remoteBatchSize = 2
    /\ remoteFailCount = 1
    /\ remoteBuffer = <<1, 2>>
    /\ queueFile = <<>>
    /\ Len(drains) = 1
    /\ drains[1].pc = "flush"
    /\ inflight = <<>>

(***************************************************************************)
(* C19.  The queue drain, no I/O error being raised: the read puts the     *)
(* first min(batchSize, line count) records of the file in front of the    *)
(* buffer in file order and leaves the file alone; the rewrite (nothing    *)
(* being appended while it runs) makes the remaining lines the file and    *)
(* leaves the buffer alone; the last step flushes.  With a valid URL that  *)
(* flush empties the buffer into one request, and a record leaves the      *)
(* buffer only into a request, so every drained record is in a request     *)
(* made by the drain's flush or by a flush that ran before it.             *)
(***************************************************************************)
C19_DrainPrependsAndFlushes ==
    [][/\ \A d \in 1..MaxDrains :
             /\ (/\ DrainRead(d, TRUE)
                 /\ Len(queueFile) > 0
                 /\ DrainParses(DrainLines(queueFile))) =>
                   LET recs == FileRecords(queueFile)
                       taken == Min(Len(recs), remoteBatchSize)
                   IN /\ remoteBuffer' = SubSeq(recs, 1, taken) \o remoteBuffer
                      /\ queueFile' = queueFile
                      /\ inflight' = inflight
                      /\ drains'[d].pc = "write"
             /\ DrainOpen(d, TRUE) =>
                   (/\ remoteBuffer' = remoteBuffer
                    /\ inflight' = inflight
                    /\ drains'[d].pc = "opened")
             /\ DrainWrite(d, TRUE) =>
                   (/\ queueFile = <<>> => queueFile' = drains[d].remaining
                    /\ remoteBuffer' = remoteBuffer
                    /\ inflight' = inflight
                    /\ drains'[d].pc = "flush")
             /\ (DrainFlush(d) /\ urlMode = "valid") =>
                   (/\ remoteBuffer' = <<>>
                    /\ queueFile' = queueFile
                    /\ IF Len(remoteBuffer) > 0
                       THEN Created /\ NewBatch = remoteBuffer
                       ELSE inflight' = inflight)
       /\ (urlMode = "valid" /\ remoteReliable) =>
             \A r \in Range(remoteBuffer) \ Range(remoteBuffer') :
                Created /\ r \in Range(NewBatch)]_vars

\* records 1, 2 failed and were persisted, record 3 was buffered, and the
\* finished drain has sent all three, the drained ones first
C19_Witness ==
    /\ urlMode = "valid"
    /\ remoteReliable
    /\ drainCalls = 1
    /\ drains = <<>>
    /\ ioErrors = 0
    /\ remoteFailCount = 1
    /\ queueFile = <<>>
    /\ remoteBuffer = <<>>
    /\ Len(inflight) = 1
    /\ inflight[1].batch = <<1, 2, 3>>

(***************************************************************************)
(* C20.  Under SpecDrain: when one of the lines a drain takes does not     *)
(* parse, the drain ends there without effect.  The buffer is unchanged    *)
(* (the lines that parsed before the corrupt one are not added), the file  *)
(* is unchanged and no rewrite and no flush of that drain follows, no      *)
(* request is made, and no exception reaches the application.              *)
(***************************************************************************)
C20_CorruptLineFailsDrain ==
    /\ [](~escaped)
    /\ [][/\ \A d \in 1..MaxDrains :
                (/\ DrainRead(d, TRUE)
                 /\ Len(queueFile) > 0
                 /\ ~DrainParses(DrainLines(queueFile))) =>
                   (/\ remoteBuffer' = remoteBuffer
                    /\ queueFile' = queueFile
                    /\ inflight' = inflight
                    /\ drains' = RemoveAt(drains, d))
          /\ drains = <<>> => queueFile' = queueFile]_vars

\* the file's second line is corrupt and batchSize is 2: the drain has
\* ended, the file is as it was, and the record of the first line is not
\* in the buffer
C20_Witness ==
    /\ remoteBatchSize = 2
    /\ queueFile = <<Stringify(MaxRecords + 1), NL, Bad, NL>>
    /\ drainCalls = 1
    /\ drains = <<>>
    /\ ioErrors = 0
    /\ remoteBuffer = <<>>
    /\ inflight = <<>>
    /\ nextRec = 1
    /\ ~escaped

(***************************************************************************)
(* C21.  A drain that fails with an I/O error, on the read or on the       *)
(* rewrite of the queue file (its open or its write), leaves the file as   *)
(* it was, ends there, and has added no record to the buffer: when it ends *)
(* no record is both in the buffer and in the queue file.                  *)
(***************************************************************************)
C21_FailedDrainAddsNothing ==
    [][\A d \in 1..MaxDrains :
          /\ DrainRead(d, FALSE) =>
                (/\ queueFile' = queueFile
                 /\ remoteBuffer' = remoteBuffer
                 /\ drains' = RemoveAt(drains, d))
          /\ (DrainOpen(d, FALSE) \/ DrainWrite(d, FALSE)) =>
                (/\ queueFile' = queueFile
                 /\ drains' = RemoveAt(drains, d)
                 /\ Range(remoteBuffer') \cap
                       Range(FileRecords(queueFile')) = {})]_vars

(***************************************************************************)
(* C22.  In durable mode a delivery failure whose append to the queue file *)
(* raises an I/O error loses the batch and nothing else: the error is      *)
(* swallowed, the file and the buffer are unchanged, the batch is in       *)
(* neither (no drain having copied records), and the failure is handled as *)
(* any other: the fail count grows by 1, the timer is stopped and one      *)
(* backoff restart is scheduled.                                           *)
(***************************************************************************)
C22_AppendFailureLosesBatch ==
    [][\A i \in 1..MaxInflight :
          (remoteReliable /\ HandleFailure(i, FALSE)) =>
             /\ ~escaped'
             /\ queueFile' = queueFile
             /\ remoteBuffer' = remoteBuffer
             /\ inflight' = RemoveAt(inflight, i)
             /\ drainCalls = 0 =>
                   Range(inflight[i].batch) \cap
                      (Range(remoteBuffer') \cup
                       Range(FileRecords(queueFile'))) = {}
             /\ remoteFailCount' = remoteFailCount + 1
             /\ remoteTimer' = NoTimer
             /\ intervals' = {}
             /\ backoffTimeouts' = backoffTimeouts + 1]_vars

\* the only record logged failed and its append failed: it is nowhere, the
\* failure is counted and the restart of the timer is pending
C22_Witness ==
    /\ remoteReliable
    /\ ioErrors = 1
    /\ drainCalls = 0
    /\ nextRec = 2
    /\ delivered = {}
    /\ inflight = <<>>
    /\ remoteBuffer = <<>>
    /\ queueFile = <<>>
    /\ remoteFailCount = 1
    /\ remoteTimer = NoTimer
    /\ backoffTimeouts = 1
    /\ ~escaped

(***************************************************************************)
(* C23.  Only the queue drain takes records out of the queue file.  A log  *)
(* call, a timer tick, flushRemote(), close() and the timer restarts       *)
(* neither change the file nor start or advance a drain; a step that is no *)
(* rewrite of a drain keeps the file's content as a prefix; in durable     *)
(* mode a delivery failure only appends its batch at the end of the file   *)
(* and leaves the buffer alone, a record enters the buffer only by a log   *)
(* call or by the read of a drain, and a request carries only records the  *)
(* buffer held or the log call added.                                      *)
(***************************************************************************)
C23_OnlyDrainReadsQueue ==
    [][/\ (\/ Log
           \/ TimerTick
           \/ FlushRemoteCall
           \/ Close
           \/ BackoffExpires
           \/ GraceExpires) =>
             (queueFile' = queueFile /\ drains' = drains)
       /\ (\A d \in 1..MaxDrains, done \in BOOLEAN :
              ~DrainOpen(d, done) /\ ~DrainWrite(d, done)) =>
             (/\ Len(queueFile') >= Len(queueFile)
              /\ SubSeq(queueFile', 1, Len(queueFile)) = queueFile)
       /\ \A d \in 1..MaxDrains : DrainFlush(d) => queueFile' = queueFile
       /\ \A i \in 1..MaxInflight :
             (remoteReliable /\ HandleFailure(i, TRUE)) =>
                (/\ remoteBuffer' = remoteBuffer
                 /\ queueFile' = queueFile \o BatchLines(inflight[i].batch))
       /\ (/\ remoteReliable
           /\ \A d \in 1..MaxDrains : ~DrainRead(d, TRUE)) =>
             Range(remoteBuffer') \subseteq Range(remoteBuffer) \cup {nextRec}
       /\ Created =>
             Range(NewBatch) \subseteq Range(remoteBuffer) \cup {nextRec}]_vars

\* record 1 failed and was persisted; the later records were delivered by
\* log calls, flushRemote() has run and resolved, the timer was restarted
\* and the logger closed: no drain was called and the file still holds
\* record 1 and nothing else
C23_Witness ==
    /\ remoteReliable
    /\ drainCalls = 0
    /\ queueFile = <<Stringify(1), NL>>
    /\ nextRec >= 3
    /\ delivered = 2..(nextRec - 1)
    /\ flushCalls = 1
    /\ graceTimeouts = 0
    /\ backoffTimeouts = 0
    /\ closed
    /\ inflight = <<>>
    /\ remoteBuffer = <<>>

(***************************************************************************)
(* C24.  Requests are handed to the transport in the order of their        *)
(* flushes, with gzip disabled and with gzip enabled: of two batches in    *)
(* flight (inflight keeps them in flush order), the later one has not been *)
(* handed to the transport while the earlier one still waits for its       *)
(* compression.                                                            *)
(***************************************************************************)
C24_SentInFlushOrder ==
    \A i, j \in DOMAIN inflight :
        (i < j /\ inflight[j].stage = "sent") => inflight[i].stage = "sent"

\* records are numbered in the order they are enqueued
C25_InEnqueueOrder(s) ==
    \A k \in 1..(Len(s) - 1) : s[k] < s[k + 1]

(***************************************************************************)
(* C25.  In non-durable mode, the cap not being reached, the records of    *)
(* the buffer are in the order they were enqueued (records are numbered in *)
(* that order), whatever failed and in whatever order, and so is every     *)
(* batch sent.                                                             *)
(***************************************************************************)
C25_BufferInEnqueueOrder ==
    (~remoteReliable /\ maxBuffer = 0) =>
       /\ C25_InEnqueueOrder(remoteBuffer)
       /\ \A i \in DOMAIN inflight : C25_InEnqueueOrder(inflight[i].batch)

(***************************************************************************)
(* C26.  A reinsertion that makes the buffer longer than maxBuffer.        *)
(***************************************************************************)
\* the failure of request i re-inserts its batch and the cap cuts the buffer
C26_Overflows(i) ==
    /\ ~remoteReliable
    /\ HandleFailure(i, TRUE)
    /\ Len(inflight[i].batch \o remoteBuffer) > RequeueCap

\* C26 as claimed: the entries dropped are the records enqueued earliest,
\* each of them older than every record kept.
C26_DropsOldest ==
    [][\A i \in 1..MaxInflight :
          C26_Overflows(i) =>
             \A r \in Range(inflight[i].batch \o remoteBuffer)
                         \ Range(remoteBuffer') :
                \A k \in Range(remoteBuffer') : r < k]_vars

\* C26 as amended: the entries dropped are those behind position maxBuffer
\* of the buffer after the reinsertion, its tail; the first maxBuffer
\* entries, which begin with the re-inserted batch, are kept in their
\* order.  When the batch and the buffer behind it are in enqueue order the
\* entries dropped are the records enqueued latest, each of them newer than
\* every record kept.
C26_DropsTail ==
    [][\A i \in 1..MaxInflight :
          C26_Overflows(i) =>
             LET all == inflight[i].batch \o remoteBuffer
                 dropped == SubSeq(all, RequeueCap + 1, Len(all))
             IN /\ remoteBuffer' = SubSeq(all, 1, RequeueCap)
                /\ Range(all) \ Range(remoteBuffer') = Range(dropped)
                /\ Len(dropped) = Len(all) - RequeueCap
                /\ remoteBuffer'[1] = inflight[i].batch[1]
                /\ C25_InEnqueueOrder(all) =>
                      \A r \in Range(dropped) :
                         \A k \in Range(remoteBuffer') : r > k]_vars

\* records 1, 2 were sent together and record 3 buffered behind them; the
\* failure put 1, 2 back and the cap of two entries cut record 3 off
C26_Witness ==
    /\ urlMode = "valid"
    /\ ~remoteReliable
    /\ maxBuffer = 2
    /\ remoteBatchSize = 2
    /\ nextRec = 4
    /\ remoteFailCount = 1
    /\ remoteBuffer = <<1, 2>>
    /\ inflight = <<>>
    /\ delivered = {}

(***************************************************************************)
(* C27.  The failure handler disarms the recurring timer and schedules its *)
(* restart, and when the backoff delay has elapsed (the restart callback   *)
(* has run) a recurring timer is active, so that the timer-driven flush of *)
(* a non-empty buffer resumes.                                             *)
(***************************************************************************)
C27_TimerActiveAfterBackoff ==
    [][/\ \A i \in 1..MaxInflight, appended \in BOOLEAN :
             HandleFailure(i, appended) =>
                (/\ remoteTimer' = NoTimer
                 /\ intervals' = {}
                 /\ backoffTimeouts' = backoffTimeouts + 1)
       /\ BackoffExpires =>
             (remoteTimer' # NoTimer /\ remoteTimer' \in intervals')]_vars

(***************************************************************************)
(* C28.  Under SpecRewrite (one logger, no crash, no I/O error): in every  *)
(* reachable state the queue file is a sequence of complete lines, each    *)
(* the JSON text of one record followed by a newline; it holds no blank    *)
(* line and no piece of a record.                                          *)
(***************************************************************************)
C28_CompleteLines ==
    /\ Len(queueFile) % 2 = 0
    /\ \A k \in 1..Len(queueFile) :
          IF k % 2 = 1 THEN IsJson(queueFile[k]) ELSE queueFile[k] = NL

(***************************************************************************)
(* C29.  Under SpecDrain: with remote.url absent remote delivery is off.   *)
(* No timer is armed, the buffer stays empty (a log call adds nothing), no *)
(* request is made, and no step, the queue drain with remoteReliable on    *)
(* included, takes a record out of the queue file or puts one into the     *)
(* buffer.                                                                 *)
(***************************************************************************)
C29_AbsentUrlDisablesRemote ==
    [][urlMode = "absent" =>
          /\ remoteTimer' = NoTimer
          /\ intervals' = {}
          /\ inflight' = <<>>
          /\ remoteBuffer' = <<>>
          /\ queueFile' = queueFile]_vars

\* the lines of a file written so far, followed by those pending
C30_Handled(t) == streamData[t] \o bufferMap[t]

\* lines are numbered in the order they are logged
C30_InLogOrder(s) == \A i, j \in 1..Len(s) : i < j => s[i] < s[j]

\* what holds of the file targets in every state
C30_State ==
    \A t \in Targets :
        /\ C30_InLogOrder(C30_Handled(t))
        /\ C30_InLogOrder(fileLogged[t])
        /\ Range(C30_Handled(t)) \subseteq Range(fileLogged[t])
        /\ ioErrors = 0 => C30_Handled(t) = fileLogged[t]
        /\ Len(bufferMap[t]) < bufferMaxSize
        /\ bufferMap[t] # <<>> => (bufferFlushTimer /\ ~closed)
        /\ closed => (fileStreams = {} /\ ~bufferFlushTimer)

C31_RotatesAtSize ==
    [][(/\ rotationSize > 0
        /\ Len(streamData["file"]) >= rotationSize
        /\ streamData'["file"] # streamData["file"]) =>
           /\ Len(rotatedFiles') = Min(Len(rotatedFiles) + 1, DefaultMaxFiles)
           /\ SliceTo(rotatedFiles'[1], Len(streamData["file"]))
                 = streamData["file"]
           /\ \A i \in 2..Len(rotatedFiles') :
                 rotatedFiles'[i] = rotatedFiles[i - 1]
           /\ Range(streamData'["file"]) \cap Range(streamData["file"]) = {}
      ]_vars

(***************************************************************************)
(* C32: while a backoff delay is pending (a failure has been handled and   *)
(* the timeout that restarts the timer has not run) no interval timer is   *)
(* live, neither a log call nor a timer callback creates a request, and a  *)
(* pending delay ends only by elapsing.  It fails: _enqueueRemote flushes  *)
(* at batchSize whatever the state of the backoff.                         *)
(***************************************************************************)
C32_BackoffHoldsDeliveries ==
    /\ [](backoffTimeouts > 0 => intervals = {})
    /\ [][/\ (backoffTimeouts > 0 /\ (Log \/ TimerTick)) => ~Created
          /\ backoffTimeouts' < backoffTimeouts => BackoffExpires]_vars

(***************************************************************************)
(* C33: a flush drains the buffer atomically.  The request a step creates  *)
(* holds every record the buffer held when the flush started (with the     *)
(* record just pushed, when a log call flushes), in enqueue order, and the *)
(* buffer is empty after the step; a record enqueued later is in no batch  *)
(* made earlier; no record is in two batches in flight.  It fails in the   *)
(* order alone: the buffer a flush drains is not always in enqueue order.  *)
(***************************************************************************)
C33_FlushDrainsAtomically ==
    /\ [](\A i, j \in DOMAIN inflight :
             i < j => Range(inflight[i].batch) \cap
                         Range(inflight[j].batch) = {})
    /\ [][/\ Created =>
                /\ NewBatch = (IF Log THEN Append(remoteBuffer, nextRec)
                               ELSE remoteBuffer)
                /\ C25_InEnqueueOrder(NewBatch)
                /\ remoteBuffer' = <<>>
          /\ Log => \A i \in DOMAIN inflight :
                       nextRec \notin Range(inflight[i].batch)]_vars

(***************************************************************************)
(* C34.  The attempt handed to calcBackoff is the fail count after its     *)
(* increment.  The count starts at 0 and changes only in a failure         *)
(* handler, by one, whatever was answered in between, so the handler that  *)
(* finds it at k - 1 handles the k-th failure: it hands over k and         *)
(* schedules the restart after min(30000, 500 * 2^k + jitter) ms, which is *)
(* at least 1000 ms, below 30000 ms up to the 5th failure and exactly      *)
(* 30000 ms from the 6th on.                                               *)
(***************************************************************************)
C34_AttemptIsIncrementedCount ==
    /\ [](remoteFailCount = 0 => bkDelay = -1)
    /\ [][/\ remoteFailCount' # remoteFailCount =>
                \E i \in 1..MaxInflight : HandleFailureTimed(i, bkJitter')
          /\ \A i \in 1..MaxInflight :
                HandleFailureTimed(i, bkJitter') =>
                   LET k == remoteFailCount + 1
                   IN /\ remoteFailCount' = k
                      /\ bkAttempt' = k
                      /\ bkJitter' \in 0..(JitterSpan - 1)
                      /\ bkDelay' = Min(30000, 500 * Pow2(k) + bkJitter')
                      /\ bkDelay' >= 1000
                      /\ k <= 5 => bkDelay' < 30000
                      /\ k >= 6 => bkDelay' = 30000]_vars

\* reached: the 6th failure has been handled after a request was answered,
\* and its delay is the cap
C34_Witness ==
    /\ remoteFailCount = 6
    /\ bkAttempt = 6
    /\ bkDelay = 30000
    /\ delivered # {}

C36_Kept ==
    Range(remoteBuffer)
    \cup UNION {Range(inflight[i].batch) : i \in DOMAIN inflight}
    \cup Range(FileRecords(queueFile))
    \cup UNION {Range(FileRecords(drains[d].remaining)) : d \in DOMAIN drains}

(***************************************************************************)
(* C36.  Under SpecRewrite (durable mode, no I/O error, no response): a    *)
(* batch appended to the queue file by a failure handler between a drain's *)
(* read and the end of its rewrite is not lost.  The rewrite (the open     *)
(* that empties the file, then the write) takes no record away from the    *)
(* logger, and the write leaves the file as the un-drained remainder       *)
(* followed by what was appended since the open.                           *)
(***************************************************************************)
C36_AppendSurvivesDrain ==
    [][\A d \in 1..MaxDrains :
          /\ (DrainOpen(d, TRUE) \/ DrainWrite(d, TRUE)) =>
                C36_Kept \subseteq C36_Kept'
          /\ DrainWrite(d, TRUE) =>
                queueFile' = drains[d].remaining \o queueFile]_vars

(***************************************************************************)
(* C37.  Once close() has been called the recurring timer is never armed   *)
(* again: on a closed logger no interval is live, and no later callback (a *)
(* backoff timeout, the failure of a request, the grace-period timeout of  *)
(* flushRemote) creates one.                                               *)
(***************************************************************************)
C37_NoTimerAfterClose ==
    /\ [](closed => intervals = {})
    /\ [][closed => intervals' \subseteq intervals]_vars

\* something is under way that will flush the buffer or re-create the
\* timer without another call of the application: a live interval, a
\* pending backoff timeout, a grace timeout that will find remoteTimer
\* null, a request whose failure would schedule a backoff, a running drain
C38_FlushAhead ==
    \/ intervals # {}
    \/ backoffTimeouts > 0
    \/ (graceTimeouts > 0 /\ remoteTimer = NoTimer)
    \/ inflight # <<>>
    \/ drains # <<>>

(***************************************************************************)
(* C38.  On a logger with a valid remote.url that has not been closed,     *)
(* periodic flushing never stops for good: while a record is in the Batch  *)
(* Buffer a flush is still ahead without any further call of the           *)
(* application, so the record reaches a delivery attempt even if nothing   *)
(* is logged any more.                                                     *)
(***************************************************************************)
C38_FlushingNeverStops ==
    (urlMode = "valid" /\ ~closed /\ remoteBuffer # <<>>) => C38_FlushAhead

(***************************************************************************)
(* C39.  With a valid remote.url, whenever a log call returns the Batch    *)
(* Buffer holds fewer than batchSize records, also when it held batchSize  *)
(* or more before the call (records put back by failed deliveries or       *)
(* copied in by a queue drain): the call that finds the length at          *)
(* batchSize or above after its push sends the whole buffer as one batch   *)
(* ending with its record and leaves the buffer empty.                     *)
(***************************************************************************)
C39_BelowBatchSizeAfterEnqueue ==
    [][(urlMode = "valid" /\ Log) =>
          /\ Len(remoteBuffer') < remoteBatchSize
          /\ Len(remoteBuffer) + 1 >= remoteBatchSize =>
                /\ remoteBuffer' = <<>>
                /\ Created
                /\ NewBatch = Append(remoteBuffer, nextRec)]_vars

\* batchSize 1: records 1 and 2 failed once each and were put back, and the
\* call that logged record 3 sent all three
C39_Witness ==
    /\ urlMode = "valid"
    /\ remoteBatchSize = 1
    /\ nextRec = 4
    /\ remoteFailCount = 2
    /\ remoteBuffer = <<>>
    /\ Len(inflight) = 1
    /\ Len(inflight[1].batch) = 3
    /\ inflight[1].batch[3] = 3

=============================================================================
